---- MODULE Spec2Model ----
(***************************************************************************)
(* Node persistence layer of CyberWeaver (src-tauri/src/lib.rs): payload   *)
(* validation, id/type normalization, transactional batch upsert,          *)
(* deduplicated batch delete and the ordered listing of the nodes table,   *)
(* the additive schema initialization at process start, and the commands   *)
(* of several callers running at the same time.                            *)
(*                                                                         *)
(* Strings that the code trims, prefixes or compares (ids, node types) are *)
(* tuples of one-character strings; f64 values are pairs <<kind, value>>;  *)
(* Option<f64> is a tuple of length 0 (None) or 1 (Some).                  *)
(***************************************************************************)
EXTENDS Integers, Sequences, FiniteSets, TLC

VARIABLES nodes, now, pc, call, pre, result, hist, input, verdict,
          boot, columns, index, setup_out, sessions, lock, log

\* the Node Store and its callers
storeVars == <<nodes, now, pc, call, pre, result, hist>>
\* a payload handed to the validator and what the validator answers
validatorVars == <<input, verdict>>

\* the process and the nodes table's layout in the database file
schemaVars == <<boot, columns, index, setup_out>>

\* commands running at the same time: each caller's command, the holder of
\* the database's write lock, the committed writes in their order
sessionVars == <<sessions, lock, log>>

vars == <<storeVars, validatorVars, schemaVars, sessionVars>>

\* what a command of the Node Store never touches
besideStore == <<validatorVars, schemaVars, sessionVars>>

----------------------------------------------------------------------------
(* Bounds of the model.                                                    *)

\* most writes committed by commands that run at the same time
MaxLog == 2
\* longest batch passed to upsert_nodes
MaxBatch == 2
\* longest id list passed to delete_nodes
MaxDel == 2
\* last second the clock behind unixepoch() reaches
MaxTime == 2

----------------------------------------------------------------------------
(* Strings.                                                                *)

\* the characters str::trim removes (White_Space), as far as the inputs use them
WhiteSpace == {" "}

\* byte value of a character: SQLite's BINARY collation and Rust's String
\* ordering both compare UTF-8 bytes
CharCode(c) ==
    CASE c = " " -> 32
      [] c = ":" -> 58
      [] c = "a" -> 97
      [] c = "b" -> 98
      [] c = "d" -> 100
      [] c = "e" -> 101
      [] c = "g" -> 103
      [] c = "h" -> 104
      [] c = "n" -> 110
      [] c = "o" -> 111
      [] c = "p" -> 112
      [] c = "r" -> 114
      [] c = "s" -> 115
      [] c = "t" -> 116
      [] c = "w" -> 119
      [] c = "x" -> 120

RECURSIVE trim_start(_)
trim_start(s) ==
    IF s # <<>> /\ Head(s) \in WhiteSpace THEN trim_start(Tail(s)) ELSE s

RECURSIVE trim_end(_)
trim_end(s) ==
    IF s # <<>> /\ s[Len(s)] \in WhiteSpace
    THEN trim_end(SubSeq(s, 1, Len(s) - 1))
    ELSE s

trim(s) == trim_end(trim_start(s))

starts_with(s, p) == Len(s) >= Len(p) /\ SubSeq(s, 1, Len(p)) = p

\* byte-wise lexicographic order: a < b
RECURSIVE StrLess(_, _)
StrLess(a, b) ==
    IF b = <<>> THEN FALSE
    ELSE IF a = <<>> THEN TRUE
    ELSE IF CharCode(Head(a)) # CharCode(Head(b))
         THEN CharCode(Head(a)) < CharCode(Head(b))
         ELSE StrLess(Tail(a), Tail(b))

ShapePrefix == <<"s", "h", "a", "p", "e", ":">>

Geo == <<"g", "e", "o">>
Text == <<"t", "e", "x", "t">>
Note == <<"n", "o", "t", "e">>

\* WHERE type IN ('geo', 'text', 'note')
SupportedTypes == {Geo, Text, Note}

----------------------------------------------------------------------------
(* f64 and Option<f64>.                                                    *)

Fin(v) == <<"finite", v>>
NaN == <<"nan", 0>>
PosInf == <<"inf", 1>>
NegInf == <<"inf", -1>>

is_finite(f) == f[1] = "finite"

\* value <= 0.0 (false for NaN)
le_zero(f) ==
    \/ is_finite(f) /\ f[2] <= 0
    \/ f = NegInf

None == <<>>
Some(v) == <<v>>

----------------------------------------------------------------------------
(* NodePayload: the id and the other fields of a payload.  (Records are    *)
(* written with their fields in the order of the fields' first use in this *)
(* module, the order in which TLC keeps them.)                             *)

Payload(id, body) ==
    [id |-> id, node_type |-> body.node_type, x |-> body.x, y |-> body.y,
     content |-> body.content, width |-> body.width, height |-> body.height]

----------------------------------------------------------------------------
(* Node Validator/Normalizer.                                              *)

\* mutant: the id is trimmed and never prefixed
normalize_shape_id_trim_only(raw) == trim(raw)

normalize_shape_id(raw) ==
    LET trimmed == trim(raw)
    IN  IF starts_with(trimmed, ShapePrefix)
        THEN trimmed
        ELSE ShapePrefix \o trimmed

\* Option<&'static str>: None or Some(canonical type)
normalize_node_type(raw) ==
    LET t == trim(raw)
    IN  IF t = Geo THEN Some(Geo)
        ELSE IF t = Text THEN Some(Text)
        ELSE IF t = Note THEN Some(Note)
        ELSE None

Ok == [ok |-> TRUE, msg |-> "", arg |-> <<>>]
Err(m, a) == [ok |-> FALSE, msg |-> m, arg |-> a]

\* mutant: a dimension of zero passes
dimension_invalid_below_zero(d) ==
    d # None /\ (~is_finite(d[1]) \/ (le_zero(d[1]) /\ d[1] # Fin(0)))

dimension_invalid(d) ==
    d # None /\ (~is_finite(d[1]) \/ le_zero(d[1]))

validate_node_payload(node) ==
    IF trim(node.id) = <<>>
    THEN Err("node.id must not be empty", <<>>)
    ELSE IF normalize_node_type(node.node_type) = None
    THEN Err("unsupported node type: {}", node.node_type)
    ELSE IF ~is_finite(node.x) \/ ~is_finite(node.y)
    THEN Err("node coordinates must be finite numbers", <<>>)
    ELSE IF dimension_invalid(node.width)
    THEN Err("node.width must be a positive finite number when provided", <<>>)
    ELSE IF dimension_invalid(node.height)
    THEN Err("node.height must be a positive finite number when provided", <<>>)
    ELSE Ok

----------------------------------------------------------------------------
(* The nodes table: a set of rows.  A row has the columns id, type, x, y,  *)
(* content, width, height, updated_at; width and height hold None for NULL.*)

Row(id, t, v) ==
    [id |-> id, node_type |-> v.node_type, x |-> v.x, y |-> v.y,
     content |-> v.content, width |-> v.width, height |-> v.height,
     updated_at |-> t]

\* mutant: on conflict a NULL width or height keeps the stored value
insert_on_conflict_keep_dimensions(table, id, v, t) ==
    IF \E r \in table : r.id = id
    THEN {IF r.id = id
          THEN [Row(id, t, v) EXCEPT
                   !.width = IF v.width = None THEN r.width ELSE v.width,
                   !.height = IF v.height = None THEN r.height ELSE v.height]
          ELSE r : r \in table}
    ELSE table \cup {Row(id, t, v)}

\* mutant: INSERT OR IGNORE, a conflicting row is left as it is
insert_or_ignore(table, id, v, t) ==
    IF \E r \in table : r.id = id
    THEN table
    ELSE table \cup {Row(id, t, v)}

\* mutant: the statement stamps every row of the table
insert_and_stamp_all(table, id, v, t) ==
    {IF r.id = id THEN Row(id, t, v) ELSE [r EXCEPT !.updated_at = t] :
        r \in table}
        \cup (IF \E r \in table : r.id = id THEN {} ELSE {Row(id, t, v)})

\* INSERT INTO nodes (...) VALUES (?, ?, ?, ?, ?, ?, ?, unixepoch())
\* ON CONFLICT(id) DO UPDATE SET type = excluded.type, ..., updated_at = unixepoch();
\* id is the bound id, v the other bound values, t what unixepoch() returns
insert_on_conflict_update(table, id, v, t) ==
    IF \E r \in table : r.id = id
    THEN {IF r.id = id THEN Row(id, t, v) ELSE r : r \in table}
    ELSE table \cup {Row(id, t, v)}

\* the values upsert_nodes_internal binds for one payload (after the id)
bound_values(node, normalized_type) ==
    [node_type |-> normalized_type, x |-> node.x, y |-> node.y,
     content |-> node.content, width |-> node.width, height |-> node.height]

\* mutant: ORDER BY id ASC
row_before_id_only(a, b) == StrLess(a.id, b.id)

\* ORDER BY updated_at ASC, id ASC
row_before(a, b) ==
    \/ a.updated_at < b.updated_at
    \/ a.updated_at = b.updated_at /\ StrLess(a.id, b.id)

RECURSIVE order_by(_)
order_by(rows) ==
    IF rows = {} THEN <<>>
    ELSE LET first == CHOOSE r \in rows : \A o \in rows : ~row_before(o, r)
         IN  <<first>> \o order_by(rows \ {first})

\* mutant: height is decoded from the width column
from_row_height_from_width(row) ==
    [id |-> row.id, node_type |-> row.node_type, x |-> row.x, y |-> row.y,
     content |-> row.content, width |-> row.width, height |-> row.width]

\* NodeModel::from_row
from_row(row) ==
    [id |-> row.id, node_type |-> row.node_type, x |-> row.x, y |-> row.y,
     content |-> row.content, width |-> row.width, height |-> row.height]

\* mutant: SELECT without the WHERE clause
select_all_nodes(table) ==
    [i \in 1..Len(order_by(table)) |-> from_row(order_by(table)[i])]

\* SELECT ... FROM nodes WHERE type IN (...) ORDER BY ...
select_nodes(table) ==
    LET rows == order_by({r \in table : r.node_type \in SupportedTypes})
    IN  [i \in 1..Len(rows) |-> from_row(rows[i])]

----------------------------------------------------------------------------
(* Database faults: the statement (or begin, or commit) of a call that the *)
(* engine answers with an error.                                           *)

NoFault == [at |-> "none", k |-> 0]

Faults(n) ==
    {NoFault, [at |-> "begin", k |-> 0], [at |-> "commit", k |-> 0]}
        \cup {[at |-> "exec", k |-> i] : i \in 1..n}

\* what unixepoch() returns in each of n successive statements, the first
\* of them issued no earlier than t0
Stamps(n, t0) ==
    {s \in [1..n -> t0..MaxTime] : \A i \in 1..(n - 1) : s[i] <= s[i + 1]}

----------------------------------------------------------------------------
(* Node Store.  Each *_internal operator is the whole function: it yields  *)
(* the table the call leaves behind and the answer it returns.             *)

Answer(v, began, stmts, committed, value) ==
    [ok |-> v.ok, msg |-> v.msg, arg |-> v.arg, began |-> began,
     stmts |-> stmts, committed |-> committed, value |-> value]

DbErr == Err("database error", <<>>)

list_nodes_internal(db, fault) ==
    IF fault.at = "exec"
    THEN [table |-> db, res |-> Answer(DbErr, FALSE, 1, FALSE, <<>>)]
    ELSE [table |-> db, res |-> Answer(Ok, FALSE, 1, FALSE, select_nodes(db))]

\* mutant: only the first payload of the batch is validated
validate_first_only(nodes_in) == validate_node_payload(Head(nodes_in))

\* for node in &nodes { validate_node_payload(node)?; }
RECURSIVE validate_all(_)
validate_all(nodes_in) ==
    IF nodes_in = <<>> THEN Ok
    ELSE IF ~validate_node_payload(Head(nodes_in)).ok
         THEN validate_node_payload(Head(nodes_in))
         ELSE validate_all(Tail(nodes_in))

\* the loop "for node in nodes" inside the transaction, from payload i on:
\* working is the transaction's view of the table, the result names the
\* view reached, the statements issued and the error that ended the loop
RECURSIVE run_statements(_, _, _, _, _)
run_statements(working, nodes_in, i, fault, ts) ==
    IF i > Len(nodes_in)
    THEN [table |-> working, stmts |-> i - 1, err |-> Ok]
    ELSE LET node == nodes_in[i]
             normalized_type == normalize_node_type(node.node_type)
         IN  IF normalized_type = None
             THEN [table |-> working, stmts |-> i - 1,
                   err |-> Err("unsupported node type: {}", node.node_type)]
             ELSE IF fault = [at |-> "exec", k |-> i]
             THEN [table |-> working, stmts |-> i, err |-> DbErr]
             ELSE run_statements(
                      insert_on_conflict_update(
                          working, normalize_shape_id(node.id),
                          bound_values(node, normalized_type[1]), ts[i]),
                      nodes_in, i + 1, fault, ts)

\* mutant: every statement is committed as it runs (no transaction)
transaction_end_autocommit(before, working, committed) == working

\* end of a transaction: commit publishes the transaction's view, dropping
\* the transaction uncommitted rolls back to the table before it
transaction_end(before, working, committed) ==
    IF committed THEN working ELSE before

upsert_nodes_internal(db, nodes_in, fault, ts) ==
    IF nodes_in = <<>>
    THEN [table |-> db, res |-> Answer(Ok, FALSE, 0, FALSE, <<>>)]
    ELSE IF ~validate_all(nodes_in).ok
    THEN [table |-> db,
          res |-> Answer(validate_all(nodes_in), FALSE, 0, FALSE, <<>>)]
    ELSE IF fault.at = "begin"
    THEN [table |-> db, res |-> Answer(DbErr, FALSE, 0, FALSE, <<>>)]
    ELSE LET txn == run_statements(db, nodes_in, 1, fault, ts)
         IN  IF ~txn.err.ok
             THEN [table |-> transaction_end(db, txn.table, FALSE),
                   res |-> Answer(txn.err, TRUE, txn.stmts, FALSE, <<>>)]
             ELSE IF fault.at = "commit"
             THEN [table |-> transaction_end(db, txn.table, FALSE),
                   res |-> Answer(DbErr, TRUE, txn.stmts, FALSE, <<>>)]
             ELSE [table |-> transaction_end(db, txn.table, TRUE),
                   res |-> Answer(Ok, TRUE, txn.stmts, TRUE, <<>>)]

\* BTreeSet<String> -> Vec<String>: ascending
RECURSIVE into_sorted_vec(_)
into_sorted_vec(set) ==
    IF set = {} THEN <<>>
    ELSE LET least == CHOOSE s \in set : \A o \in set : ~StrLess(o, s)
         IN  <<least>> \o into_sorted_vec(set \ {least})

\* mutant: the trimmed ids are deleted as given, without the prefix
RECURSIVE collect_delete_ids_unprefixed(_, _)
collect_delete_ids_unprefixed(ids, deduped) ==
    IF ids = <<>> THEN deduped
    ELSE LET trimmed == trim(Head(ids))
         IN  collect_delete_ids_unprefixed(
                 Tail(ids),
                 IF trimmed # <<>> THEN deduped \cup {trimmed} ELSE deduped)

RECURSIVE collect_delete_ids(_, _)
collect_delete_ids(ids, deduped) ==
    IF ids = <<>> THEN deduped
    ELSE LET trimmed == trim(Head(ids))
         IN  collect_delete_ids(
                 Tail(ids),
                 IF trimmed # <<>>
                 THEN deduped \cup {normalize_shape_id(trimmed)}
                 ELSE deduped)

\* mutant: ids that are empty after trimming are kept
normalize_delete_ids_keep_empty(ids) ==
    into_sorted_vec({normalize_shape_id(ids[i]) : i \in 1..Len(ids)})

normalize_delete_ids(ids) == into_sorted_vec(collect_delete_ids(ids, {}))

\* mutant: DELETE FROM nodes WHERE id = ?; with the first id only
delete_where_id_is_first(table, values) ==
    {r \in table : r.id # values[1]}

\* DELETE FROM nodes WHERE id IN (?, ?, ...);
delete_where_id_in(table, values) ==
    {r \in table : \A i \in 1..Len(values) : r.id # values[i]}

delete_nodes_internal(db, ids, fault) ==
    LET normalized_ids == normalize_delete_ids(ids)
    IN  IF normalized_ids = <<>>
        THEN [table |-> db, res |-> Answer(Ok, FALSE, 0, FALSE, <<>>)]
        ELSE IF fault.at = "exec"
        THEN [table |-> db, res |-> Answer(DbErr, FALSE, 1, FALSE, <<>>)]
        ELSE [table |-> delete_where_id_in(db, normalized_ids),
              res |-> Answer(Ok, FALSE, 1, FALSE, <<>>)]

----------------------------------------------------------------------------
(* Schema Manager.  The database file holds the nodes table's columns (no  *)
(* column: no table), whether idx_nodes_type_updated_at exists, and the    *)
(* rows; a row is a record with one field per column of the table.         *)

\* CREATE TABLE of the legacy entry point: id, type, x, y, content
LegacyColumns == {"id", "node_type", "x", "y", "content"}

\* the columns init_schema ensures, in the order of its ensure_column calls
EnsuredColumns == <<"width", "height", "updated_at">>

CurrentColumns == LegacyColumns \cup {"width", "height", "updated_at"}

\* what a row that exists holds in a column added later:
\* "REAL" is NULL, "INTEGER NOT NULL DEFAULT 0" is 0
column_default(column_name) ==
    IF column_name = "updated_at" THEN 0 ELSE None

DbFile(c, i, r) == [columns |-> c, index |-> i, rows |-> r]

\* mutant: DROP TABLE IF EXISTS nodes; CREATE TABLE nodes (...)
drop_and_create_table(file) ==
    DbFile(CurrentColumns, FALSE, {})

\* CREATE TABLE IF NOT EXISTS nodes (...)
create_table_if_not_exists(file) ==
    IF file.columns = {}
    THEN DbFile(CurrentColumns, file.index, file.rows)
    ELSE file

\* PRAGMA table_info(nodes): the names of the table's columns
table_info(file) == file.columns

\* ALTER TABLE nodes ADD COLUMN ...
alter_table_add_column(file, column_name) ==
    DbFile(file.columns \cup {column_name}, file.index,
           {[c \in file.columns \cup {column_name} |->
                IF c = column_name THEN column_default(column_name) ELSE r[c]]
            : r \in file.rows})

\* CREATE INDEX IF NOT EXISTS idx_nodes_type_updated_at ON nodes(type, updated_at)
create_index_if_not_exists(file) ==
    DbFile(file.columns, TRUE, file.rows)

\* init_schema so far: the statements issued, the error that ended it, the
\* file as the statements left it, the columns it added
Progress(n, e, f, a) == [stmts |-> n, err |-> e, file |-> f, altered |-> a]

\* db.execute(...).await? with a statement that changes the file to "after"
execute(st, fault, after) ==
    IF ~st.err.ok THEN st
    ELSE IF fault = [at |-> "exec", k |-> st.stmts + 1]
    THEN Progress(st.stmts + 1, DbErr, st.file, st.altered)
    ELSE Progress(st.stmts + 1, Ok, after, st.altered)

\* mutant: the column is added without looking at the table's columns; the
\* engine refuses a column name the table has ("duplicate column name")
ensure_column_always_alter(st, column_name, fault) ==
    IF column_name \in st.file.columns
    THEN Progress(st.stmts + 1, DbErr, st.file, st.altered)
    ELSE LET added == execute(st, fault,
                          alter_table_add_column(st.file, column_name))
         IN  IF added.err.ok
             THEN Progress(added.stmts, Ok, added.file,
                           added.altered \cup {column_name})
             ELSE added

\* mutant: every column is taken to exist
ensure_column_never_alter(st, column_name, fault) ==
    execute(st, fault, st.file)

ensure_column(st, column_name, fault) ==
    LET queried == execute(st, fault, st.file)
    IN  IF ~queried.err.ok THEN queried
        ELSE IF column_name \in table_info(queried.file) THEN queried
        ELSE LET added == execute(queried, fault,
                              alter_table_add_column(queried.file, column_name))
             IN  IF added.err.ok
                 THEN Progress(added.stmts, Ok, added.file,
                               added.altered \cup {column_name})
                 ELSE added

\* each step runs only if the step before it returned Ok (the ? operator)
init_schema(file, fault) ==
    LET created == execute(Progress(0, Ok, file, {}), fault,
                           create_table_if_not_exists(file))
        width == IF created.err.ok
                 THEN ensure_column(created, EnsuredColumns[1], fault)
                 ELSE created
        height == IF width.err.ok
                  THEN ensure_column(width, EnsuredColumns[2], fault)
                  ELSE width
        updated_at == IF height.err.ok
                      THEN ensure_column(height, EnsuredColumns[3], fault)
                      ELSE height
    IN  execute(updated_at, fault, create_index_if_not_exists(updated_at.file))

\* mutant: let _ = init_schema(&db).await; the error is dropped
connect_and_init_unchecked(file, fault) ==
    IF fault.at = "connect"
    THEN Progress(0, DbErr, file, {})
    ELSE Progress(init_schema(file, fault).stmts, Ok,
                  init_schema(file, fault).file,
                  init_schema(file, fault).altered)

\* the block run's setup hook waits for: connect_database, then init_schema
connect_and_init(file, fault) ==
    IF fault.at = "connect"
    THEN Progress(0, DbErr, file, {})
    ELSE init_schema(file, fault)

\* most statements one init_schema issues: CREATE TABLE, three times PRAGMA
\* and ALTER TABLE, CREATE INDEX
MaxSchemaStatements == 8

SetupFaults ==
    {NoFault, [at |-> "connect", k |-> 0]}
        \cup {[at |-> "exec", k |-> i] : i \in 1..MaxSchemaStatements}

----------------------------------------------------------------------------
(* Inputs of the calls.                                                    *)

IdA == <<"a">>
IdAPrefixed == <<" ", "s", "h", "a", "p", "e", ":", "a", " ">>
IdB == <<"b">>
IdPrefixOnly == ShapePrefix
IdBlank == <<" ">>

TextBody ==
    [node_type |-> Text, x |-> Fin(12), y |-> Fin(34),
     content |-> "IOC discovered", width |-> Some(Fin(200)), height |-> None]

NoteBody ==
    [node_type |-> <<" ">> \o Note \o <<" ">>, x |-> Fin(0), y |-> Fin(0),
     content |-> "temporary", width |-> None, height |-> Some(Fin(50))]

DrawBody ==
    [node_type |-> <<"d", "r", "a", "w">>, x |-> Fin(0), y |-> Fin(0),
     content |-> "", width |-> None, height |-> None]

EmptyString == <<>>
GeoUpper == <<"G", "e", "o">>
Draw == DrawBody.node_type

Payloads ==
    {Payload(IdA, TextBody), Payload(IdAPrefixed, NoteBody),
     Payload(IdB, TextBody),
     Payload(IdPrefixOnly, TextBody),
     Payload(IdBlank, TextBody), Payload(IdA, DrawBody)}

SeqsUpTo(S, n) == UNION {[1..m -> S] : m \in 0..n}

Batches == SeqsUpTo(Payloads, MaxBatch)

SingleBatches == {<<p>> : p \in {q \in Payloads : q.node_type # DrawBody.node_type}}

DeleteIds == {IdA, IdAPrefixed, IdB, IdPrefixOnly, IdBlank}

DeleteLists == SeqsUpTo(DeleteIds, MaxDel)

----------------------------------------------------------------------------
(* State.                                                                  *)
(*   nodes   the committed nodes table                                     *)
(*   now     the second unixepoch() returns                                *)
(*   pc      "idle", "running" (a command was invoked) or "done" (it has   *)
(*           answered)                                                     *)
(*   call    the command invoked and its argument                          *)
(*   pre     the table when the command was invoked                        *)
(*   result  the answer, with the fault the database raised and the times  *)
(*           the statements read                                           *)
(*   hist    the last three commands answered, each as the stored id of    *)
(*           the one payload it upserted, or <<>> for any other command    *)

NoCall == [nodes |-> <<>>, ids |-> <<>>, op |-> "none"]

NoResult ==
    [fault |-> NoFault, res |-> Answer(Ok, FALSE, 0, FALSE, <<>>),
     stamps |-> <<>>]

\* the callers whose commands run at the same time
Callers == {"c1", "c2"}
NoCaller == "none"

\* a caller's command: where it stands ("idle", "begun": its transaction
\* is open, "done"), the statements it has executed, its transaction's
\* view of the table, the times its statements read, its answer, and the
\* number of committed writes when it read the table
Session(p, c, n, w, ts, r, s) ==
    [pc |-> p, call |-> c, at |-> n, res |-> r, working |-> w,
     stamps |-> ts, seen |-> s]

NoSession == Session("idle", NoCall, 0, {}, <<>>, NoResult.res, 0)

SessionsIdle ==
    /\ sessions = [c \in Callers |-> NoSession]
    /\ lock = NoCaller
    /\ log = <<>>

\* no payload is with the validator
ValidatorIdle == input = None /\ verdict = None

\* no command is in flight
CallersIdle ==
    /\ now = 1
    /\ pc = "idle"
    /\ call = NoCall
    /\ pre = {}
    /\ result = NoResult
    /\ hist = <<>>

NoSetup ==
    [pre |-> DbFile({}, FALSE, {}), fault |-> NoFault,
     res |-> Progress(0, Ok, DbFile({}, FALSE, {}), {}), resumed |-> FALSE]

\* init_schema has succeeded on the database and AppState is managed
SchemaCurrent ==
    /\ boot = "serving"
    /\ columns = CurrentColumns
    /\ index = TRUE
    /\ setup_out = NoSetup

\* create_test_db / run: a connected database on which init_schema succeeded
Init ==
    /\ nodes = {}
    /\ CallersIdle
    /\ ValidatorIdle
    /\ SchemaCurrent
    /\ SessionsIdle

\* the clock reaches the next second
Tick ==
    /\ pc = "idle"
    /\ now < MaxTime
    /\ now' = now + 1
    /\ UNCHANGED <<nodes, pc, call, pre, result, hist>>
    /\ UNCHANGED besideStore

\* a command reaches its handler: State<AppState> is there to be injected
Invoke(c) ==
    /\ boot = "serving"
    /\ pc = "idle"
    /\ call' = c
    /\ pre' = nodes
    /\ pc' = "running"
    /\ UNCHANGED <<nodes, now, result, hist>>
    /\ UNCHANGED besideStore

invoke_get_nodes == Invoke([nodes |-> <<>>, ids |-> <<>>, op |-> "get_nodes"])

invoke_upsert_nodes(batches) ==
    \E b \in batches : Invoke([nodes |-> b, ids |-> <<>>, op |-> "upsert_nodes"])

invoke_delete_nodes(lists) ==
    \E l \in lists : Invoke([nodes |-> <<>>, ids |-> l, op |-> "delete_nodes"])

get_nodes ==
    /\ pc = "running"
    /\ call.op = "get_nodes"
    /\ \E fault \in {NoFault, [at |-> "exec", k |-> 1]} :
          LET out == list_nodes_internal(nodes, fault)
          IN  /\ nodes' = out.table
              /\ result' = [fault |-> fault, res |-> out.res, stamps |-> <<>>]
    /\ pc' = "done"
    /\ UNCHANGED <<now, call, pre, hist>>
    /\ UNCHANGED besideStore

upsert_nodes ==
    /\ pc = "running"
    /\ call.op = "upsert_nodes"
    /\ \E fault \in Faults(Len(call.nodes)) :
       \E ts \in Stamps(Len(call.nodes), now) :
          LET out == upsert_nodes_internal(nodes, call.nodes, fault, ts)
          IN  /\ nodes' = out.table
              /\ result' = [fault |-> fault, res |-> out.res,
                            stamps |-> IF out.res.committed THEN ts ELSE <<>>]
              /\ now' = IF out.res.committed THEN ts[Len(ts)] ELSE now
    /\ pc' = "done"
    /\ UNCHANGED <<call, pre, hist>>
    /\ UNCHANGED besideStore

delete_nodes ==
    /\ pc = "running"
    /\ call.op = "delete_nodes"
    /\ \E fault \in {NoFault, [at |-> "exec", k |-> 1]} :
          LET out == delete_nodes_internal(nodes, call.ids, fault)
          IN  /\ nodes' = out.table
              /\ result' = [fault |-> fault, res |-> out.res, stamps |-> <<>>]
    /\ pc' = "done"
    /\ UNCHANGED <<now, call, pre, hist>>
    /\ UNCHANGED besideStore

\* what hist keeps of the command that has answered
Summary ==
    IF call.op = "upsert_nodes" /\ result.res.ok /\ Len(call.nodes) = 1
    THEN normalize_shape_id(call.nodes[1].id)
    ELSE <<>>

LastThree(h) == IF Len(h) > 3 THEN SubSeq(h, Len(h) - 2, Len(h)) ELSE h

\* the answer reaches the caller
Return(track) ==
    /\ pc = "done"
    /\ pc' = "idle"
    /\ call' = NoCall
    /\ pre' = {}
    /\ result' = NoResult
    /\ hist' = IF track THEN LastThree(Append(hist, Summary)) ELSE hist
    /\ UNCHANGED <<nodes, now>>
    /\ UNCHANGED besideStore

Next ==
    \/ Tick
    \/ invoke_get_nodes
    \/ invoke_upsert_nodes(Batches)
    \/ invoke_delete_nodes(DeleteLists)
    \/ get_nodes
    \/ upsert_nodes
    \/ delete_nodes
    \/ Return(FALSE)

Spec == Init /\ [][Next]_vars

\* the same commands with single-payload batches, remembering the last
\* three commands answered
NextHist ==
    \/ Tick
    \/ invoke_get_nodes
    \/ invoke_upsert_nodes(SingleBatches)
    \/ get_nodes
    \/ upsert_nodes
    \/ Return(TRUE)

SpecHist == Init /\ [][NextHist]_vars

----------------------------------------------------------------------------
(* The validator alone: a payload is drawn, validate_node_payload answers. *)

ValidateIds == {EmptyString, IdBlank, IdA}
ValidateTypes == {Geo, NoteBody.node_type, GeoUpper, Draw, EmptyString}
ValidateCoordinates == {Fin(12), NaN, PosInf, NegInf}
ValidateDimensions ==
    {None, Some(Fin(200)), Some(Fin(0)), Some(Fin(-5)), Some(NaN),
     Some(PosInf), Some(NegInf)}

ValidateInputs ==
    {[id |-> i, node_type |-> t, x |-> x, y |-> y, content |-> "",
      width |-> w, height |-> h] :
        i \in ValidateIds, t \in ValidateTypes,
        x \in ValidateCoordinates, y \in ValidateCoordinates,
        w \in ValidateDimensions, h \in ValidateDimensions}

InitValidate ==
    /\ input \in ValidateInputs
    /\ verdict = None
    /\ nodes = {}
    /\ CallersIdle
    /\ SchemaCurrent
    /\ SessionsIdle

validate ==
    /\ verdict = None
    /\ verdict' = Some(validate_node_payload(input))
    /\ UNCHANGED <<input, storeVars, schemaVars, sessionVars>>

NextValidate == validate

SpecValidate == InitValidate /\ [][NextValidate]_vars

----------------------------------------------------------------------------
(* The application from process start: run's setup hook connects to the    *)
(* file an earlier version (or an earlier, interrupted start) left behind, *)
(* initializes the schema and manages AppState; then commands are served;  *)
(* the process exits and may be started again on the same file.            *)

\* the rows save_node of the legacy entry point wrote: id and type as given
SavedNodes ==
    {[id |-> IdA, node_type |-> Text, x |-> Fin(12), y |-> Fin(34),
      content |-> "IOC discovered"],
     [id |-> IdB, node_type |-> Draw, x |-> Fin(0), y |-> Fin(0),
      content |-> ""]}

\* what an older row holds in a column its table already had
older_value(column_name) ==
    IF column_name = "width" THEN Some(Fin(200))
    ELSE IF column_name = "height" THEN Some(Fin(50))
    ELSE 1

OlderRow(saved, cols) ==
    [c \in cols |-> IF c \in LegacyColumns THEN saved[c] ELSE older_value(c)]

\* older layouts: the legacy columns and any of the columns added since
OlderLayouts ==
    {LegacyColumns \cup added : added \in SUBSET {"width", "height", "updated_at"}}

OlderRowSets ==
    {{}, {r \in SavedNodes : r.node_type = Draw}, SavedNodes}

\* the file at process start: none, or a table of an older layout
OlderFiles ==
    {DbFile({}, FALSE, {})}
        \cup {DbFile(cols, FALSE, {OlderRow(r, cols) : r \in saved}) :
                 cols \in OlderLayouts, saved \in OlderRowSets}

AppBatches == {<<Payload(IdA, TextBody)>>, <<Payload(IdAPrefixed, NoteBody)>>}

AppDeletes == {<<IdA>>}

InitApp ==
    /\ \E file \in OlderFiles :
          /\ columns = file.columns
          /\ index = file.index
          /\ nodes = file.rows
    /\ boot = "stopped"
    /\ setup_out = NoSetup
    /\ CallersIdle
    /\ ValidatorIdle
    /\ SessionsIdle

\* the setup hook up to app.manage
setup ==
    /\ boot = "stopped"
    /\ \E fault \in SetupFaults :
          LET file == DbFile(columns, index, nodes)
              out == connect_and_init(file, fault)
          IN  /\ columns' = out.file.columns
              /\ index' = out.file.index
              /\ nodes' = out.file.rows
              /\ setup_out' = [pre |-> file, fault |-> fault, res |-> out,
                               resumed |-> ~setup_out.res.err.ok]
    /\ boot' = "set_up"
    /\ UNCHANGED <<now, pc, call, pre, result, hist, validatorVars, sessionVars>>

\* app.manage(AppState { db }): reached when the block returned Ok
manage ==
    /\ boot = "set_up"
    /\ setup_out.res.err.ok
    /\ boot' = "serving"
    /\ setup_out' = NoSetup
    /\ UNCHANGED <<storeVars, validatorVars, sessionVars, columns, index>>

\* the setup hook returned the error: run panics in expect
run_fails ==
    /\ boot = "set_up"
    /\ ~setup_out.res.err.ok
    /\ boot' = "stopped"
    /\ UNCHANGED <<storeVars, validatorVars, sessionVars, columns, index, setup_out>>

\* the application is closed
exit ==
    /\ boot = "serving"
    /\ pc = "idle"
    /\ boot' = "stopped"
    /\ UNCHANGED <<storeVars, validatorVars, sessionVars, columns, index, setup_out>>

NextApp ==
    \/ setup
    \/ manage
    \/ run_fails
    \/ exit
    \/ invoke_get_nodes
    \/ invoke_upsert_nodes(AppBatches)
    \/ invoke_delete_nodes(AppDeletes)
    \/ get_nodes
    \/ upsert_nodes
    \/ delete_nodes
    \/ Return(FALSE)

SpecApp == InitApp /\ [][NextApp]_vars

----------------------------------------------------------------------------
(* Commands of several callers at the same time.  The commands are async    *)
(* functions over one connection pool: every statement is a step, and the  *)
(* steps of different commands interleave.  A transaction's statements work *)
(* on its own view of the table until commit; the engine lets one          *)
(* connection write at a time, from its first write to its commit or       *)
(* rollback, and a statement outside the transaction reads the committed   *)
(* table.                                                                  *)

ConcBatches ==
    {<<Payload(IdA, TextBody), Payload(IdB, TextBody)>>,
     <<Payload(IdAPrefixed, NoteBody)>>,
     <<Payload(IdA, DrawBody)>>}

ConcDeletes == {<<IdA>>}

\* mutant: db.execute, the statement runs outside the transaction
db_execute(committed, view, node, t) ==
    [committed |-> run_statements(committed, <<node>>, 1, NoFault, <<t>>).table,
     working |-> run_statements(view, <<node>>, 1, NoFault, <<t>>).table]

\* txn.execute: one pass of the loop over the batch, inside the transaction
txn_execute(committed, view, node, t) ==
    [committed |-> committed,
     working |-> run_statements(view, <<node>>, 1, NoFault, <<t>>).table]

LogEntry(c, ts) == [call |-> c, stamps |-> ts]

\* get_nodes: one SELECT over the committed table
conc_get_nodes(c) ==
    /\ sessions[c].pc = "idle"
    /\ \E fault \in {NoFault, [at |-> "exec", k |-> 1]} :
          sessions' = [sessions EXCEPT ![c] =
              Session("done", [nodes |-> <<>>, ids |-> <<>>, op |-> "get_nodes"],
                      0, {}, <<>>, list_nodes_internal(nodes, fault).res,
                      Len(log))]
    /\ UNCHANGED <<nodes, now, pc, call, pre, result, hist, lock, log,
                   validatorVars, schemaVars>>

\* delete_nodes: one DELETE, committed as it runs; it runs when no
\* transaction holds the write lock, and fails otherwise (database busy)
conc_delete_nodes(c) ==
    /\ sessions[c].pc = "idle"
    /\ Len(log) < MaxLog
    /\ \E ids \in ConcDeletes :
       \E fault \in {NoFault, [at |-> "exec", k |-> 1]} :
          LET out == delete_nodes_internal(nodes, ids, fault)
              cmd == [nodes |-> <<>>, ids |-> ids, op |-> "delete_nodes"]
          IN  /\ fault = NoFault => lock = NoCaller
              /\ nodes' = out.table
              /\ log' = IF out.res.ok THEN Append(log, LogEntry(cmd, <<>>))
                        ELSE log
              /\ sessions' = [sessions EXCEPT ![c] =
                    Session("done", cmd, 0, {}, <<>>, out.res, 0)]
    /\ UNCHANGED <<now, pc, call, pre, result, hist, lock,
                   validatorVars, schemaVars>>

\* upsert_nodes up to db.begin(): an empty or invalid batch is answered at
\* once, db.begin() may fail, else the transaction is open
conc_upsert_begin(c) ==
    /\ sessions[c].pc = "idle"
    /\ \E batch \in ConcBatches :
       \E fault \in {NoFault, [at |-> "begin", k |-> 0]} :
          LET cmd == [nodes |-> batch, ids |-> <<>>, op |-> "upsert_nodes"]
          IN  sessions' = [sessions EXCEPT ![c] =
                 IF batch = <<>> \/ ~validate_all(batch).ok \/ fault.at = "begin"
                 THEN Session("done", cmd, 0, {}, <<>>,
                              upsert_nodes_internal(nodes, batch, fault, <<>>).res,
                              0)
                 ELSE Session("begun", cmd, 0, {}, <<>>, NoResult.res, 0)]
    /\ UNCHANGED <<nodes, now, pc, call, pre, result, hist, lock, log,
                   validatorVars, schemaVars>>

\* the next INSERT of the batch: the first one takes the write lock
conc_upsert_execute(c) ==
    LET me == sessions[c]
        view == IF me.at = 0 THEN nodes ELSE me.working
    IN  /\ me.pc = "begun"
        /\ me.at < Len(me.call.nodes)
        /\ lock \in {NoCaller, c}
        /\ LET out == txn_execute(nodes, view, me.call.nodes[me.at + 1], now)
           IN  /\ nodes' = out.committed
               /\ sessions' = [sessions EXCEPT ![c] =
                     Session("begun", me.call, me.at + 1, out.working,
                             Append(me.stamps, now), me.res, me.seen)]
        /\ lock' = c
        /\ UNCHANGED <<now, pc, call, pre, result, hist, log,
                       validatorVars, schemaVars>>

\* a statement or the commit fails (the database is busy, or another
\* error): the function returns, the transaction is dropped and rolls back
conc_upsert_fail(c) ==
    LET me == sessions[c]
        view == IF me.at = 0 THEN nodes ELSE me.working
    IN  /\ me.pc = "begun"
        /\ nodes' = transaction_end(nodes, view, FALSE)
        /\ lock' = IF lock = c THEN NoCaller ELSE lock
        /\ sessions' = [sessions EXCEPT ![c] =
              Session("done", me.call, 0, {}, <<>>,
                      Answer(DbErr, TRUE, me.at, FALSE, <<>>), 0)]
        /\ UNCHANGED <<now, pc, call, pre, result, hist, log,
                       validatorVars, schemaVars>>

\* txn.commit()
conc_upsert_commit(c) ==
    LET me == sessions[c]
    IN  /\ me.pc = "begun"
        /\ me.at = Len(me.call.nodes)
        /\ Len(log) < MaxLog
        /\ nodes' = transaction_end(nodes, me.working, TRUE)
        /\ lock' = NoCaller
        /\ log' = Append(log, LogEntry(me.call, me.stamps))
        /\ sessions' = [sessions EXCEPT ![c] =
              Session("done", me.call, 0, {}, <<>>,
                      Answer(Ok, TRUE, me.at, TRUE, <<>>), 0)]
        /\ UNCHANGED <<now, pc, call, pre, result, hist,
                       validatorVars, schemaVars>>

\* the answer reaches the caller
conc_return(c) ==
    /\ sessions[c].pc = "done"
    /\ sessions' = [sessions EXCEPT ![c] = NoSession]
    /\ UNCHANGED <<storeVars, lock, log, validatorVars, schemaVars>>

NextConc ==
    \/ Tick
    \/ \E c \in Callers : conc_get_nodes(c)
    \/ \E c \in Callers : conc_delete_nodes(c)
    \/ \E c \in Callers : conc_upsert_begin(c)
    \/ \E c \in Callers : conc_upsert_execute(c)
    \/ \E c \in Callers : conc_upsert_fail(c)
    \/ \E c \in Callers : conc_upsert_commit(c)
    \/ \E c \in Callers : conc_return(c)

SpecConc == Init /\ [][NextConc]_vars

----------------------------------------------------------------------------
(* Claims.                                                                 *)

UpsertDone == pc = "done" /\ call.op = "upsert_nodes"
DeleteDone == pc = "done" /\ call.op = "delete_nodes"

Ids(table) == {r.id : r \in table}

\* what listNodes returns on the committed table
Listed == list_nodes_internal(nodes, NoFault).res.value

Invalid(b) == {i \in 1..Len(b) : ~validate_node_payload(b[i]).ok}

\* C1: an upsertNodes call on a non-empty batch holding at least one payload
\* that fails validation, at any position, returns an error and leaves the
\* nodes table exactly as it was before the call; no transaction is opened
\* and no statement is issued.
C1_InvalidBatchWritesNothing ==
    (UpsertDone /\ Invalid(call.nodes) # {})
        => /\ ~result.res.ok
           /\ nodes = pre
           /\ ~result.res.began
           /\ result.res.stmts = 0

\* C1 witness: a valid payload followed by an invalid one was refused on a
\* table that holds rows.
C1_Witness ==
    /\ UpsertDone
    /\ Len(call.nodes) = 2
    /\ Invalid(call.nodes) = {2}
    /\ ~result.res.ok
    /\ pre # {}
    /\ normalize_shape_id(call.nodes[1].id) \notin Ids(pre)

\* C2: when every payload of an upsertNodes batch passes validation and the
\* k-th statement or the final commit fails with a database error, the call
\* returns an error, nothing is committed and the committed table equals the
\* table before the call.
C2_FailedTransactionRollsBack ==
    (UpsertDone /\ call.nodes # <<>> /\ Invalid(call.nodes) = {}
        /\ result.fault.at \in {"exec", "commit"})
        => /\ ~result.res.ok
           /\ ~result.res.committed
           /\ nodes = pre

\* C2 witness: the second statement failed after the first had inserted a
\* row that the table did not hold.
C2_Witness ==
    /\ UpsertDone
    /\ Invalid(call.nodes) = {}
    /\ result.fault = [at |-> "exec", k |-> 2]
    /\ result.res.stmts = 2
    /\ normalize_shape_id(call.nodes[1].id) \notin Ids(pre)
    /\ nodes = pre

SingleUpsertOk == UpsertDone /\ Len(call.nodes) = 1 /\ result.res.ok

\* the listed Nodes whose id is the normalized id of payload p
ListedFor(p) ==
    LET l == Listed
        id == normalize_shape_id(p.id)
    IN  {i \in 1..Len(l) : l[i].id = id}

ListedNodesFor(p) ==
    LET l == Listed
    IN  {l[i] : i \in ListedFor(p)}

SameBody(n, p) ==
    /\ n.x = p.x
    /\ n.y = p.y
    /\ n.content = p.content
    /\ n.width = p.width
    /\ n.height = p.height

\* C3 (as stated): after a successful upsertNodes([p]), listNodes returns
\* exactly one Node with id normalizeShapeId(p.id), and its type, x, y,
\* content, width and height equal those of p.
C3_RoundTripTypePreserved ==
    SingleUpsertOk
        => LET p == call.nodes[1]
           IN  /\ Cardinality(ListedFor(p)) = 1
               /\ \A n \in ListedNodesFor(p) :
                     n.node_type = p.node_type /\ SameBody(n, p)

\* C3 (amended): after a successful upsertNodes([p]), listNodes returns
\* exactly one Node with id normalizeShapeId(p.id); its x, y, content, width
\* and height equal those of p and its type is p's type with the
\* surrounding whitespace removed.
C3_RoundTrip ==
    SingleUpsertOk
        => LET p == call.nodes[1]
           IN  /\ Cardinality(ListedFor(p)) = 1
               /\ \A n \in ListedNodesFor(p) :
                     n.node_type = trim(p.node_type) /\ SameBody(n, p)

\* C3 witness: a payload with an unprefixed id, a width and no height was
\* upserted into a table that holds other rows, and is listed.
C3_Witness ==
    /\ SingleUpsertOk
    /\ ~starts_with(trim(call.nodes[1].id), ShapePrefix)
    /\ call.nodes[1].width # None
    /\ call.nodes[1].height = None
    /\ pre # {}
    /\ Len(Listed) >= 2

\* position of the Node with this id in the list
Pos(id) ==
    LET l == Listed
    IN  CHOOSE i \in 1..Len(l) : l[i].id = id

\* C4: after three successive successful calls upsertNodes([B]),
\* upsertNodes([A]), upsertNodes([B]) for two distinct nodes A and B,
\* listNodes returns A before B.  (hist holds the stored ids B, A, B.)
C4_WriteRecencyOrder ==
    (/\ pc = "idle"
     /\ Len(hist) = 3
     /\ hist[1] # <<>>
     /\ hist[2] # <<>>
     /\ hist[1] # hist[2]
     /\ hist[3] = hist[1])
        => Pos(hist[2]) < Pos(hist[1])

UpdatedAt(id) == (CHOOSE r \in nodes : r.id = id).updated_at

Supported(table) == {r \in table : r.node_type \in {Geo, Text, Note}}

\* C5: in every reachable state the list returned by listNodes is sorted by
\* updated_at ascending and, among equal updated_at, by id ascending, and
\* holds every row with a supported type exactly once.
C5_ListOrdered ==
    LET l == Listed
        u == [i \in 1..Len(l) |-> UpdatedAt(l[i].id)]
    IN  /\ \A i, j \in 1..Len(l) :
              i < j =>
                  \/ u[i] < u[j]
                  \/ u[i] = u[j] /\ StrLess(l[i].id, l[j].id)
        /\ {l[i].id : i \in 1..Len(l)} = Ids(Supported(nodes))
        /\ Len(l) = Cardinality(Supported(nodes))

\* C5 witness: three rows are listed, two of them written in the same second
\* and one pair in which the earlier write has the greater id.
C5_Witness ==
    LET l == Listed
    IN  /\ Len(l) = 3
        /\ \E i \in 1..2 : UpdatedAt(l[i].id) = UpdatedAt(l[i + 1].id)
        /\ \E i \in 1..2 : StrLess(l[i + 1].id, l[i].id)

NormId(i) == normalize_shape_id(call.nodes[i].id)

RowsFor(id) == {r \in nodes : r.id = id}

\* payload i meets a row: one the table held before the call or one an
\* earlier payload of the batch wrote
Conflicts(i) ==
    \/ NormId(i) \in Ids(pre)
    \/ \E j \in 1..(i - 1) : NormId(j) = NormId(i)

\* payload i is the last of the batch for its id
LastFor(i) == \A j \in (i + 1)..Len(call.nodes) : NormId(j) # NormId(i)

\* C6 (as stated): when a successful upsertNodes applies payload p to an id
\* that already has a row, afterwards there is exactly one row for that id,
\* type, x, y, content, width and height hold p's values and updated_at is
\* the store's time at the write.
C6_ReplaceWholesaleTypeVerbatim ==
    (UpsertDone /\ result.res.ok)
        => \A i \in 1..Len(call.nodes) :
              (Conflicts(i) /\ LastFor(i))
                  => /\ Cardinality(RowsFor(NormId(i))) = 1
                     /\ \A r \in RowsFor(NormId(i)) :
                           /\ r.node_type = call.nodes[i].node_type
                           /\ SameBody(r, call.nodes[i])
                           /\ r.updated_at = result.stamps[i]

\* C6 (amended): when a successful upsertNodes applies payload p to an id
\* that already has a row, afterwards there is exactly one row for that id,
\* x, y, content, width and height hold p's values (absent width/height
\* become absent), type holds p's type with the surrounding whitespace
\* removed, and updated_at is the time the store read at that write.
C6_ReplaceWholesale ==
    (UpsertDone /\ result.res.ok)
        => \A i \in 1..Len(call.nodes) :
              (Conflicts(i) /\ LastFor(i))
                  => /\ Cardinality(RowsFor(NormId(i))) = 1
                     /\ \A r \in RowsFor(NormId(i)) :
                           /\ r.node_type = trim(call.nodes[i].node_type)
                           /\ SameBody(r, call.nodes[i])
                           /\ r.updated_at = result.stamps[i]

\* C6 witness: a payload without width replaced, in a later second, a row of
\* another type that had a width.
C6_Witness ==
    /\ UpsertDone
    /\ result.res.ok
    /\ Len(call.nodes) = 1
    /\ call.nodes[1].width = None
    /\ \E old \in pre :
          /\ old.id = NormId(1)
          /\ old.width # None
          /\ old.node_type # trim(call.nodes[1].node_type)
          /\ old.updated_at < result.stamps[1]
    /\ \E r \in nodes : r.id = NormId(1) /\ r.width = None

\* C7: within one successful upsertNodes batch the payloads are applied in
\* the caller's order: when several payloads normalize to the same id, the
\* row stored after the commit carries the values of the last of them (its
\* x, y, content, width, height, and the type it normalizes to).
C7_LastPayloadWins ==
    (UpsertDone /\ result.res.ok)
        => \A i, j \in 1..Len(call.nodes) :
              (i < j /\ NormId(i) = NormId(j) /\ LastFor(j))
                  => \A r \in RowsFor(NormId(j)) :
                        /\ SameBody(r, call.nodes[j])
                        /\ normalize_node_type(call.nodes[j].node_type)
                               = Some(r.node_type)

\* C7 witness: a batch holds two payloads with different raw ids and
\* different values that normalize to one id, and was committed.
C7_Witness ==
    /\ UpsertDone
    /\ result.res.ok
    /\ Len(call.nodes) = 2
    /\ call.nodes[1].id # call.nodes[2].id
    /\ NormId(1) = NormId(2)
    /\ call.nodes[1].content # call.nodes[2].content
    /\ Cardinality(RowsFor(NormId(2))) = 1

ListedIds ==
    LET l == Listed
    IN  {l[i].id : i \in 1..Len(l)}

SingleDeleteOk ==
    DeleteDone /\ Len(call.ids) = 1 /\ result.fault = NoFault

\* C8 (as stated): deleteNodes([d]) removes the row upserted under a raw id
\* r whenever normalizeShapeId(d) = normalizeShapeId(r): the row with id
\* normalizeShapeId(d) is gone and no longer listed.
C8_DeleteMatchesNormalizedId ==
    (SingleDeleteOk /\ normalize_shape_id(call.ids[1]) \in Ids(pre))
        => /\ result.res.ok
           /\ normalize_shape_id(call.ids[1]) \notin Ids(nodes)
           /\ normalize_shape_id(call.ids[1]) \notin ListedIds

\* C8 (amended): the same for every raw id d that is not empty after
\* trimming.
C8_DeleteMatchesNonEmptyId ==
    (/\ SingleDeleteOk
     /\ trim(call.ids[1]) # <<>>
     /\ normalize_shape_id(call.ids[1]) \in Ids(pre))
        => /\ result.res.ok
           /\ normalize_shape_id(call.ids[1]) \notin Ids(nodes)
           /\ normalize_shape_id(call.ids[1]) \notin ListedIds

\* C8 witness: an unprefixed id deleted the row stored under the prefixed
\* id, and another row stayed.
C8_Witness ==
    /\ SingleDeleteOk
    /\ ~starts_with(trim(call.ids[1]), ShapePrefix)
    /\ normalize_shape_id(call.ids[1]) \in Ids(pre)
    /\ normalize_shape_id(call.ids[1]) \notin Ids(nodes)
    /\ nodes # {}

\* the set S of C9
DeleteSet(ids) ==
    {normalize_shape_id(ids[i]) : i \in {j \in 1..Len(ids) : trim(ids[j]) # <<>>}}

Reverse(s) == [i \in 1..Len(s) |-> s[Len(s) + 1 - i]]

\* C9: a deleteNodes(ids) that meets no database fault succeeds, and the
\* table afterwards is the table before without the rows whose id is in S,
\* every other row unchanged; the same ids in another order or repeated
\* give the same table, and repeating the call changes nothing.
C9_DeleteSetSemantics ==
    (DeleteDone /\ result.fault = NoFault)
        => /\ result.res.ok
           /\ nodes = {r \in pre : r.id \notin DeleteSet(call.ids)}
           /\ delete_nodes_internal(pre, Reverse(call.ids), NoFault).table = nodes
           /\ delete_nodes_internal(pre, call.ids \o call.ids, NoFault).table = nodes
           /\ delete_nodes_internal(nodes, call.ids, NoFault).table = nodes
           /\ delete_nodes_internal(nodes, call.ids, NoFault).res.ok

\* C9 witness: two ids, one matching a row and one matching none, were
\* deleted from a table of which a row remains.
C9_Witness ==
    /\ DeleteDone
    /\ result.res.ok
    /\ Cardinality(DeleteSet(call.ids)) = 2
    /\ Cardinality(DeleteSet(call.ids) \cap Ids(pre)) = 1
    /\ nodes # {}
    /\ nodes # pre

AllBlank(ids) == \A i \in 1..Len(ids) : trim(ids[i]) = <<>>

\* C10: upsertNodes([]) succeeds without opening a transaction, and
\* deleteNodes(ids) succeeds without issuing a statement when ids is empty
\* or holds only ids that are empty after trimming; the table is unchanged.
C10_EmptyInputNoOp ==
    /\ (UpsertDone /\ call.nodes = <<>>)
          => /\ result.res.ok
             /\ ~result.res.began
             /\ result.res.stmts = 0
             /\ nodes = pre
    /\ (DeleteDone /\ AllBlank(call.ids))
          => /\ result.res.ok
             /\ result.res.stmts = 0
             /\ nodes = pre

\* C10 witness: a delete of blank ids answered while the table holds the row
\* whose id is the bare prefix.
C10_Witness ==
    /\ DeleteDone
    /\ call.ids # <<>>
    /\ AllBlank(call.ids)
    /\ ShapePrefix \in Ids(pre)
    /\ result.res.ok

----------------------------------------------------------------------------
(* The validator's table of checks, in the order id, type, x/y, width,     *)
(* height.                                                                 *)

PositiveFinite(f) == f[1] = "finite" /\ f[2] > 0

IdCheck(p) == trim(p.id) # EmptyString
TypeCheck(p) == trim(p.node_type) \in {Geo, Text, Note}
CoordinateCheck(p) == is_finite(p.x) /\ is_finite(p.y)
WidthCheck(p) == p.width = None \/ PositiveFinite(p.width[1])
HeightCheck(p) == p.height = None \/ PositiveFinite(p.height[1])

FirstFailingMessage(p) ==
    IF ~IdCheck(p) THEN "node.id must not be empty"
    ELSE IF ~TypeCheck(p) THEN "unsupported node type: {}"
    ELSE IF ~CoordinateCheck(p) THEN "node coordinates must be finite numbers"
    ELSE IF ~WidthCheck(p)
    THEN "node.width must be a positive finite number when provided"
    ELSE IF ~HeightCheck(p)
    THEN "node.height must be a positive finite number when provided"
    ELSE ""

\* C11: validate_node_payload succeeds exactly when the id is non-empty
\* after trimming, the type trims to geo, text or note, x and y are finite
\* and width and height are each absent or finite and greater than zero;
\* when it fails, its error is that of the first failing check in the order
\* id, type, x/y, width, height.
C11_ValidatePayload ==
    verdict # None =>
        LET v == verdict[1]
        IN  /\ v.ok <=> /\ IdCheck(input)
                        /\ TypeCheck(input)
                        /\ CoordinateCheck(input)
                        /\ WidthCheck(input)
                        /\ HeightCheck(input)
            /\ v.msg = FirstFailingMessage(input)

\* a payload with width 0 whose type and height fail too is answered with
\* the type's error
C11_Witness ==
    /\ verdict # None
    /\ input.id = IdA
    /\ input.node_type = GeoUpper
    /\ input.x = Fin(12)
    /\ input.width = Some(Fin(0))
    /\ input.height = Some(NaN)
    /\ verdict[1].msg = "unsupported node type: {}"

----------------------------------------------------------------------------
(* Schema initialization, seen when the setup hook has returned.           *)

SetUp == boot = "set_up"

\* no statement of the run was answered with an error
NoErrorMet ==
    \/ setup_out.fault.at = "none"
    \/ setup_out.fault.at = "exec" /\ setup_out.fault.k > setup_out.res.stmts

\* every row of the file before is there, with what it held in the columns
\* the table had, and no other row is
RowsIntact(before, rows) ==
    /\ Cardinality(rows) = Cardinality(before.rows)
    /\ \A r \in before.rows :
          \E q \in rows : \A c \in before.columns : q[c] = r[c]

\* C12: init_schema run again on a database on which it has succeeded (all
\* columns, the index) succeeds and leaves columns, index and rows as they
\* were; no ensure_column alters the table (five statements: CREATE TABLE,
\* three PRAGMA, CREATE INDEX).
C12_SchemaIdempotent ==
    (SetUp /\ NoErrorMet /\ setup_out.pre.index
           /\ setup_out.pre.columns = CurrentColumns) =>
        /\ setup_out.res.err.ok
        /\ columns = setup_out.pre.columns
        /\ index = setup_out.pre.index
        /\ nodes = setup_out.pre.rows
        /\ setup_out.res.altered = {}
        /\ setup_out.res.stmts = 5

\* a second start on a migrated database that holds rows
C12_Witness ==
    /\ SetUp
    /\ setup_out.fault = NoFault
    /\ setup_out.pre.index
    /\ setup_out.pre.columns = CurrentColumns
    /\ Cardinality(setup_out.pre.rows) = 3
    /\ setup_out.res.err.ok

\* C13: on every older layout a successful init_schema ends with the
\* current columns and the index, keeps every column the table had, and
\* keeps every row with its values in those columns.
C13_AdditiveMigration ==
    (SetUp /\ setup_out.res.err.ok) =>
        /\ columns = CurrentColumns
        /\ index
        /\ setup_out.pre.columns \subseteq columns
        /\ RowsIntact(setup_out.pre, nodes)

\* the legacy five-column table with two rows has been migrated
C13_Witness ==
    /\ SetUp
    /\ setup_out.res.err.ok
    /\ setup_out.pre.columns = LegacyColumns
    /\ Cardinality(setup_out.pre.rows) = 2
    /\ setup_out.res.altered = {"width", "height", "updated_at"}

\* a command is in flight only while AppState is managed, and AppState is
\* managed only over a table with the current columns and the index
StoreGate ==
    /\ pc # "idle" => boot = "serving"
    /\ boot = "serving" => columns = CurrentColumns /\ index

\* a setup that met an error ends the process; serving begins only out of
\* a setup that met none and left the current schema
StartupStep ==
    /\ (SetUp /\ ~NoErrorMet) => boot' = "stopped"
    /\ (boot # "serving" /\ boot' = "serving") =>
          SetUp /\ NoErrorMet /\ columns = CurrentColumns /\ index

\* C14: no command of the Store is served before init_schema has succeeded
\* on the database; when connecting or a statement of init_schema fails the
\* process ends without managing AppState, so no command runs against a
\* partially migrated table.
C14_StartupGate == []StoreGate /\ [][StartupStep]_vars

\* a start has failed on an error of a statement and left the table
\* partially migrated; no command is in flight
C14_Witness ==
    /\ boot = "stopped"
    /\ setup_out.fault.at = "exec"
    /\ ~setup_out.res.err.ok
    /\ columns = LegacyColumns \cup {"width"}
    /\ pc = "idle"

\* the columns the first j ensure_column calls add to a table of columns cols
AddedByFirst(j, cols) == {EnsuredColumns[i] : i \in 1..j} \ cols

\* C18: the statements of init_schema take effect one by one: when a run
\* ends after some of them, the table has the columns it had and those the
\* ensure_column calls so far added, in their order, and the rows are
\* intact; a later run that meets no error ends with exactly the current
\* columns and the index, having added just the columns that were missing.
C18_MigrationResumable ==
    SetUp =>
        LET before == setup_out.pre
            added == setup_out.res.altered
        IN  /\ RowsIntact(before, nodes)
            /\ before.columns # {} =>
                  /\ columns = before.columns \cup added
                  /\ \E j \in 0..3 : added = AddedByFirst(j, before.columns)
            /\ before.columns = {} =>
                  added = {} /\ columns \in {{}, CurrentColumns}
            /\ (setup_out.resumed /\ NoErrorMet) =>
                  /\ setup_out.res.err.ok
                  /\ columns = CurrentColumns
                  /\ index
                  /\ before.columns # {} =>
                        added = CurrentColumns \ before.columns

\* a start that follows a failed one finds the width column that one added
\* (its rows hold NULL there) and adds height and updated_at
C18_Witness ==
    /\ SetUp
    /\ setup_out.resumed
    /\ setup_out.res.err.ok
    /\ setup_out.pre.columns = LegacyColumns \cup {"width"}
    /\ \E r \in setup_out.pre.rows : r.width = None
    /\ setup_out.res.altered = {"height", "updated_at"}

----------------------------------------------------------------------------
(* Invariants of the stored rows and frame of an upsert.                   *)

\* C15: starting from the empty table of a fresh database, whatever commands
\* have run, every stored row's id starts with "shape:" and no two rows have
\* the same id.
C15_IdInvariant ==
    \A r \in nodes :
        /\ starts_with(r.id, ShapePrefix)
        /\ \A q \in nodes : q.id = r.id => q = r

\* one batch has upserted "a" and " shape:a " into the empty table: one row
C15_Witness ==
    /\ UpsertDone
    /\ result.res.ok
    /\ pre = {}
    /\ call.nodes = <<Payload(IdA, TextBody), Payload(IdAPrefixed, NoteBody)>>
    /\ Cardinality(nodes) = 1

GetDone == pc = "done" /\ call.op = "get_nodes"

\* C16: every node get_nodes returns has type geo, text or note, whatever
\* the table holds; rows of another type do not make the call fail; every
\* row a successful upsert_nodes wrote holds the trimmed type of its
\* payload, one of the three.
C16_TypeInvariant ==
    /\ (GetDone /\ result.res.ok) =>
          \A i \in 1..Len(result.res.value) :
              result.res.value[i].node_type \in {Geo, Text, Note}
    /\ (GetDone /\ result.fault = NoFault) => result.res.ok
    /\ (UpsertDone /\ result.res.ok) =>
          \A i \in 1..Len(call.nodes) :
              LastFor(i) =>
                  \E r \in nodes :
                      /\ r.id = NormId(i)
                      /\ r.node_type = trim(call.nodes[i].node_type)
                      /\ r.node_type \in {Geo, Text, Note}

\* get_nodes has answered over a table that holds a row of type draw and a
\* row of a supported type
C16_Witness ==
    /\ GetDone
    /\ result.res.ok
    /\ \E r \in nodes : r.node_type = Draw
    /\ Len(result.res.value) = 1
    /\ Cardinality(nodes) = 2

\* the ids a batch writes to
Touched == {NormId(i) : i \in 1..Len(call.nodes)}

Untouched(n) == n.id \notin Touched

\* C19: a successful upsert_nodes leaves every row whose id is not the
\* normalized id of a payload as it was (all columns, updated_at), adds no
\* row under another id, removes no row, and keeps the untouched rows in
\* their order in the list.
C19_UpsertFrame ==
    (UpsertDone /\ result.res.ok) =>
        /\ \A r \in pre : r.id \notin Touched => r \in nodes
        /\ \A r \in nodes : r.id \notin Touched => r \in pre
        /\ \A r \in pre : \E q \in nodes : q.id = r.id
        /\ SelectSeq(select_nodes(nodes), Untouched)
               = SelectSeq(select_nodes(pre), Untouched)

\* an upsert has replaced one row of a table and left another alone
C19_Witness ==
    /\ UpsertDone
    /\ result.res.ok
    /\ \E r \in pre : r.id \notin Touched
    /\ \E r \in pre : r.id \in Touched /\ r \notin nodes

----------------------------------------------------------------------------
(* Commands at the same time against commands one after another.           *)

\* the table after the first n committed writes, each applied as a whole
\* call to the empty table of the fresh database, in the order of the log
RECURSIVE Replay(_, _)
Replay(l, n) ==
    IF n = 0 THEN {}
    ELSE LET db == Replay(l, n - 1)
             e == l[n]
         IN  IF e.call.op = "upsert_nodes"
             THEN upsert_nodes_internal(db, e.call.nodes, NoFault, e.stamps).table
             ELSE delete_nodes_internal(db, e.call.ids, NoFault).table

\* C17: with the commands of several callers interleaved statement by
\* statement, the table is at every moment (and so at the end) what the
\* committed batches and deletes give when applied whole, one after
\* another, in the order of their commits, and every list a get_nodes
\* returns is the list of such a table: each batch is in it with all its
\* rows or not at all.
C17_BatchAtomicity ==
    /\ nodes = Replay(log, Len(log))
    /\ \A c \in Callers :
          (/\ sessions[c].pc = "done"
           /\ sessions[c].call.op = "get_nodes"
           /\ sessions[c].res.ok) =>
              sessions[c].res.value = select_nodes(Replay(log, sessions[c].seen))

\* one caller's get_nodes has answered while the other caller's batch of
\* two has executed its first INSERT and not committed; a write had been
\* committed before
C17_Witness ==
    /\ sessions["c1"].pc = "begun"
    /\ Len(sessions["c1"].call.nodes) = 2
    /\ sessions["c1"].at = 1
    /\ sessions["c2"].pc = "done"
    /\ sessions["c2"].call.op = "get_nodes"
    /\ sessions["c2"].res.ok
    /\ Len(sessions["c2"].res.value) = 1
    /\ sessions["c2"].seen = 1

====
